---------------------------- MODULE Spec2Model ----------------------------
(***************************************************************************)
(* A model of concourse-piper: the header/body splitter (findHeader), the  *)
(* metadata model (Singleton, AllInstances, isRelevantForPipeline), the    *)
(* template execution environment (getParam, indent, partial), the         *)
(* instance renderer (generateInstance, convertToResource), the category   *)
(* loader (loadResources) and the pipeline assembler (buildPipeline) with  *)
(* its four loader goroutines and its error collector.                     *)
(*                                                                         *)
(* Three specifications share the definitions:                             *)
(*   SpecHeader  findHeader applied to byte sequences                      *)
(*   SpecLoad    one loadResources call walking one category directory,    *)
(*               with a caller that may cancel the context at any moment   *)
(*   Spec        buildPipeline: main, four loaders, the error collector    *)
(***************************************************************************)
EXTENDS Naturals, Integers, Sequences, FiniteSets, TLC

\* Bounds of the model.
MaxChunks == 3       \* chunks concatenated into one findHeader input
MaxFiles == 2        \* files of the category directory walked under SpecLoad
MaxTotalFiles == 2   \* files over the four category directories under Spec
\* The template engine refuses to nest template invocations deeper than its
\* limit (100000); the model keeps the limit and scales it down.
MaxExecDepth == 3

\* The capacity of errChan, make(chan error, 4).
ErrChanCap == 4

NIL == "nil"

-----------------------------------------------------------------------------
(* Bytes and findHeader                                                    *)

\* []byte("data:\n")
Marker == <<"d", "a", "t", "a", ":", "\n">>

\* bytes.Index(data, sep): the 0-based offset of the first occurrence of sep
\* in data, -1 when there is none.
Index(data, sep) ==
    LET hits == {i \in 0..Len(data) :
                    /\ i + Len(sep) <= Len(data)
                    /\ SubSeq(data, i + 1, i + Len(sep)) = sep}
    IN  IF hits = {} THEN -1
        ELSE CHOOSE i \in hits : \A j \in hits : i <= j

\* findHeader returns (header, error); the slice expression data[0 : idx-1]
\* panics (slice bounds out of range) when idx-1 is negative.
findHeader(data) ==
    LET idx == Index(data, Marker)
    IN  IF idx = -1
        THEN [kind |-> "err", header |-> <<>>]
        ELSE IF idx - 1 < 0
             THEN [kind |-> "panic", header |-> <<>>]
             ELSE [kind |-> "ok", header |-> SubSeq(data, 1, idx - 1)]

-----------------------------------------------------------------------------
(* Text helpers of the template execution environment                      *)

RECURSIVE Spaces(_)
\* strings.Repeat(" ", n)
Spaces(n) == IF n = 0 THEN "" ELSE " " \o Spaces(n - 1)

RECURSIVE JoinNL(_)
\* strings.Join(lines, "\n")
JoinNL(lines) ==
    IF Len(lines) = 0 THEN ""
    ELSE IF Len(lines) = 1 THEN lines[1]
    ELSE lines[1] \o "\n" \o JoinNL(Tail(lines))

\* indent: a text is held as its lines (strings.Split(data, "\n")); the first
\* line is left alone, every other line is prefixed with offset spaces.
indent(lines, offset) ==
    JoinNL([i \in 1..Len(lines) |->
               IF i = 1 THEN lines[i] ELSE Spaces(offset) \o lines[i]])

\* ite(condition, trueValue, falseValue)
ite(condition, trueValue, falseValue) ==
    IF condition THEN trueValue ELSE falseValue

RECURSIVE getParamFrom(_, _, _, _)
getParamFrom(params, i, name, def) ==
    IF i > Len(params) THEN def
    ELSE IF params[i].Name = name THEN params[i].Value
    ELSE getParamFrom(params, i + 1, name, def)

RECURSIVE getParamLastFrom(_, _, _, _)
getParamLastFrom(params, i, name, def) ==
    IF i = 0 THEN def
    ELSE IF params[i].Name = name THEN params[i].Value
    ELSE getParamLastFrom(params, i - 1, name, def)

\* A getParam whose loop keeps the value of every match and so returns the
\* last one.
getParamLast(params, name, def) == getParamLastFrom(params, Len(params), name, def)

\* funcs["getParam"]: the value of the first parameter named name, else def.
getParam(params, name, def) == getParamFrom(params, 1, name, def)

-----------------------------------------------------------------------------
(* Templates.  A template text is a sequence of tokens: literal text and    *)
(* the actions a template author can write.                                 *)

Lit(s) == [t |-> "lit", a |-> s, b |-> "", n |-> 0, kw |-> <<>>]
\* {{.Instance}}
Inst == [t |-> "instance", a |-> "", b |-> "", n |-> 0, kw |-> <<>>]
\* {{.Pipeline}}
Pipe == [t |-> "pipeline", a |-> "", b |-> "", n |-> 0, kw |-> <<>>]
\* {{ index .Args "k" }}
Arg(k) == [t |-> "arg", a |-> k, b |-> "", n |-> 0, kw |-> <<>>]
\* {{ getParam "name" "def" }}
GetParam(name, def) == [t |-> "getParam", a |-> name, b |-> def, n |-> 0, kw |-> <<>>]
\* {{ partial "name" n . kw... }}
Partial(name, n, kw) == [t |-> "partial", a |-> name, b |-> "", n |-> n, kw |-> kw]
\* {{ partial .Instance n . kw... }}
PartialInst(n, kw) == [t |-> "partialInst", a |-> "", b |-> "", n |-> n, kw |-> kw]

\* {{ template "name" . }}, on a line of its own in a partial
Include(name) == [t |-> "template", a |-> name, b |-> "", n |-> 0, kw |-> <<>>]

\* What the template engine prints for a missing map key.
NoValue == "<no value>"

\* One token of a partial, executed with the context it was handed.  The
\* partials are parsed without the function map, so they hold no calls.
ExecTok(tok, context) ==
    CASE tok.t = "lit" -> tok.a
      [] tok.t = "instance" -> context.Instance
      [] tok.t = "pipeline" -> context.Pipeline
      [] tok.t = "arg" ->
            IF tok.a \in DOMAIN context.Args THEN context.Args[tok.a] ELSE NoValue
      [] OTHER -> ""

RECURSIVE ExecLine(_, _)
ExecLine(toks, context) ==
    IF Len(toks) = 0 THEN ""
    ELSE ExecTok(Head(toks), context) \o ExecLine(Tail(toks), context)

RECURSIVE walkTemplate(_, _, _, _)
RECURSIVE walkLines(_, _, _, _)
\* The engine walks the lines of a partial at nesting depth depth: a line
\* that is a template action is replaced by the lines of the template it
\* names, the first failing action aborts the execution.
walkLines(partials, lines, context, depth) ==
    IF Len(lines) = 0 THEN [err |-> FALSE, lines |-> <<>>]
    ELSE LET l == Head(lines)
             h == IF Len(l) = 1 /\ l[1].t = "template"
                  THEN walkTemplate(partials, l[1].a, context, depth)
                  ELSE [err |-> FALSE, lines |-> <<ExecLine(l, context)>>]
         IN  IF h.err THEN h
             ELSE LET r == walkLines(partials, Tail(lines), context, depth)
                  IN  IF r.err THEN r
                      ELSE [err |-> FALSE, lines |-> h.lines \o r.lines]

\* The engine executes {{ template "name" . }} met at nesting depth depth:
\* an error for a name that is not defined and for a nesting that has
\* reached the engine's limit, else the named template one level deeper.
walkTemplate(partials, name, context, depth) ==
    IF name \notin DOMAIN partials \/ depth = MaxExecDepth
    THEN [err |-> TRUE, lines |-> <<>>]
    ELSE walkLines(partials, partials[name], context, depth + 1)

\* partials.ExecuteTemplate(&out, name, context): the lines it writes, or
\* an error when no partial has that name or the execution fails.
ExecuteTemplate(partials, name, context) ==
    IF name \notin DOMAIN partials
    THEN [err |-> TRUE, lines |-> <<>>]
    ELSE walkLines(partials, partials[name], context, 0)

\* A partial function that drops the error of partials.ExecuteTemplate and
\* returns what the buffer holds, nothing.
partialDroppingError(partials, name, indentation, context, kw) ==
    IF Len(kw) # 0
    THEN [err |-> TRUE, out |-> ""]
    ELSE LET r == ExecuteTemplate(partials, name, context)
         IN  [err |-> FALSE, out |-> indent(r.lines, indentation)]

\* funcs["partial"] = func(name string, indentation int, context interface{}).
\* The function takes exactly three arguments: a call that passes more fails
\* in the template engine (wrong number of args) before the function runs.
partial(partials, name, indentation, context, kw) ==
    IF Len(kw) # 0
    THEN [err |-> TRUE, out |-> ""]
    ELSE LET r == ExecuteTemplate(partials, name, context)
         IN  IF r.err THEN [err |-> TRUE, out |-> ""]
             ELSE [err |-> FALSE, out |-> indent(r.lines, indentation)]

\* One token of the ROOT template, executed with generateFuncMap's functions.
RenderTok(tok, context, params, partials) ==
    CASE tok.t = "getParam" ->
            [err |-> FALSE, out |-> getParam(params, tok.a, tok.b)]
      [] tok.t = "partial" ->
            partial(partials, tok.a, tok.n, context, tok.kw)
      [] tok.t = "partialInst" ->
            partial(partials, context.Instance, tok.n, context, tok.kw)
      [] OTHER -> [err |-> FALSE, out |-> ExecTok(tok, context)]

RECURSIVE RenderToks(_, _, _, _)
\* tmpl.ExecuteTemplate over a token sequence: the first failing action
\* aborts the execution.
RenderToks(toks, context, params, partials) ==
    IF Len(toks) = 0 THEN [err |-> FALSE, out |-> ""]
    ELSE LET h == RenderTok(Head(toks), context, params, partials)
         IN  IF h.err THEN h
             ELSE LET r == RenderToks(Tail(toks), context, params, partials)
                  IN  IF r.err THEN r
                      ELSE [err |-> FALSE, out |-> h.out \o r.out]

-----------------------------------------------------------------------------
(* Metadata model                                                           *)

\* Singleton as the earlier loader decided it (useName): no instances and a
\* non-empty name.
SingletonNamed(m) == Len(m.Instances) = 0 /\ m.Name # ""

\* ResourceMeta.Singleton
Singleton(m) == Len(m.Instances) = 0

\* ResourceMeta.AllInstances
AllInstances(m) == IF Singleton(m) THEN <<m.Name>> ELSE m.Instances

\* A relevance test that takes an empty pipelines list to match every
\* selected pipeline.
isRelevantWhenUnlisted(m, pipeline) ==
    \/ Len(m.Pipelines) = 0
    \/ \E i \in 1..Len(m.Pipelines) : m.Pipelines[i] = pipeline

\* ResourceConfigHeader.isRelevantForPipeline
isRelevantForPipeline(m, pipeline) ==
    IF Len(m.Pipelines) = 0
    THEN pipeline = ""
    ELSE \E i \in 1..Len(m.Pipelines) : m.Pipelines[i] = pipeline

-----------------------------------------------------------------------------
(* Instance renderer                                                        *)

\* generateInstance: params lookup, template parse, execution, unmarshal.
\* f is the template file (its raw text and parsed header), the result is the
\* error flag and the unmarshalled ResourceConfig.
generateInstance(f, instance, activePipeline, partials) ==
    LET params == IF instance \in DOMAIN f.meta.Params
                  THEN f.meta.Params[instance] ELSE <<>>
        context == [Instance |-> instance, Params |-> params,
                    Pipeline |-> activePipeline, Args |-> <<>>]
        nt == RenderToks(f.meta.NameTemplate, context, params, partials)
        dv == [k \in DOMAIN f.data |->
                  RenderToks(f.data[k], context, params, partials)]
        none == [Meta |-> [Name |-> "", NameTemplate |-> ""], Data |-> <<>>]
    IN  IF ~f.tmplOk
        THEN [err |-> "failed to parse template", params |-> params, rc |-> none]
        ELSE IF nt.err \/ \E k \in DOMAIN f.data : dv[k].err
        THEN [err |-> "failed to render template", params |-> params, rc |-> none]
        ELSE IF ~f.outYaml
        THEN [err |-> "failed to unmarshal final instance config",
              params |-> params, rc |-> none]
        ELSE [err |-> NIL, params |-> params,
              rc |-> [Meta |-> [Name |-> f.meta.Name, NameTemplate |-> nt.out],
                      Data |-> [k \in DOMAIN f.data |-> dv[k].out]]]

\* convertToResource: the name first, then every key of the data section.
convertToResource(rc, singleton) ==
    LET name == IF singleton THEN rc.Meta.Name ELSE rc.Meta.NameTemplate
    IN  [k \in {"name"} \cup DOMAIN rc.Data |->
            IF k \in DOMAIN rc.Data THEN rc.Data[k] ELSE name]

-----------------------------------------------------------------------------
(* Inputs: template files, category directories, the partial registry       *)

Param(name, value) == [Name |-> name, Value |-> value, Section |-> ""]

Meta(name, nameTemplate, instances, pipelines, params) ==
    [Name |-> name, NameTemplate |-> nameTemplate, Instances |-> instances,
     Pipelines |-> pipelines, Params |-> params]

\* A header, a line break, the marker and a body; no marker at all; the
\* marker as the first bytes of the file.
RawOk == <<"m", "\n">> \o Marker \o <<"x">>
RawNoMarker == <<"m", "\n", "x">>
RawMarkerFirst == Marker \o <<"x">>

\* A well-formed template file: its name ends in .yml, it can be read, its
\* header parses as YAML into meta, its text compiles as a template and its
\* rendered text parses as YAML with the data section data.
File(id, meta, data) ==
    [id |-> id, yml |-> TRUE, read |-> "ok", raw |-> RawOk, headerYaml |-> TRUE,
     meta |-> meta, tmplOk |-> TRUE, outYaml |-> TRUE, data |-> data]

NameT == <<Lit("build-"), Inst>>
ParamsAB == ("a" :> <<Param("param", "a")>>) @@ ("b" :> <<Param("param", "b")>>)
\* Only instance a has a params entry; its two parameters share one name.
ParamsA == ("a" :> <<Param("param", "first"), Param("param", "second")>>)
PlanData == ("plan" :> <<Lit("get")>>)
ParamData == ("param" :> <<GetParam("param", "<nil>")>>)

fSingle == File("single", Meta("build", <<>>, <<>>, <<>>, <<>>), PlanData)
fInst == File("inst", Meta("", NameT, <<"a", "b">>, <<>>, ParamsAB), ParamData)
fInstBA == File("instBA", Meta("", NameT, <<"b", "a">>, <<>>, ParamsA),
                ParamData @@ ("pipe" :> <<Pipe>>))
fP1 == File("p1", Meta("deploy", <<>>, <<>>, <<"p1">>, <<>>), PlanData)
fP2P1 == File("p2p1", Meta("", NameT, <<"a">>, <<"p2", "p1">>, ParamsA), ParamData)
fNameless == File("nameless", Meta("", <<>>, <<>>, <<>>, <<>>), PlanData)
fDataName == File("dataName", Meta("build", <<>>, <<>>, <<>>, <<>>),
                  PlanData @@ ("name" :> <<Lit("other")>>))
fDataNameInst == File("dataNameInst", Meta("", NameT, <<"a">>, <<>>, <<>>),
                      ("name" :> <<Lit("other-"), Inst>>))
fNotYml == [File("notYml", Meta("build", <<>>, <<>>, <<>>, <<>>), PlanData)
               EXCEPT !.yml = FALSE]
\* A symbolic link named *.yml whose target does not exist.
fDangling == [File("dangling", Meta("", <<>>, <<>>, <<>>, <<>>), <<>>)
                 EXCEPT !.read = "notexist"]
fUnreadable == [File("unreadable", Meta("", <<>>, <<>>, <<>>, <<>>), <<>>)
                   EXCEPT !.read = "ioerr"]
fNoMarker == [File("noMarker", Meta("", <<>>, <<>>, <<>>, <<>>), <<>>)
                 EXCEPT !.raw = RawNoMarker]
fMarkerFirst == [File("markerFirst", Meta("", <<>>, <<>>, <<>>, <<>>), PlanData)
                    EXCEPT !.raw = RawMarkerFirst]
fBadHeader == [File("badHeader", Meta("", <<>>, <<>>, <<>>, <<>>), <<>>)
                  EXCEPT !.headerYaml = FALSE]
fBadTemplate == [File("badTemplate", Meta("build", <<>>, <<>>, <<>>, <<>>), PlanData)
                    EXCEPT !.tmplOk = FALSE]
fBadYaml == [File("badYaml", Meta("build", <<>>, <<>>, <<>>, <<>>), PlanData)
                EXCEPT !.outYaml = FALSE]
fPartial == File("partial", Meta("task", <<>>, <<>>, <<>>, <<>>),
                 ("config" :> <<Partial("task.yml", 2, <<>>)>>))
fPartialArgs == File("partialArgs", Meta("task", <<>>, <<>>, <<>>, <<>>),
                     ("config" :> <<Partial("task.yml", 2,
                                            <<"some-key", "some-value">>)>>))
fPartialOdd == File("partialOdd", Meta("task", <<>>, <<>>, <<>>, <<>>),
                    ("config" :> <<Partial("task.yml", 2, <<"some-key">>)>>))
\* One partial per instance: there is a partial named a and none named b.
fPartialInst == File("partialInst", Meta("", NameT, <<"a", "b">>, <<>>, <<>>),
                     ("config" :> <<PartialInst(0, <<>>)>>))

\* Instance a declares a parameter of another name before two of the name
\* asked for; the template also asks for a name no instance declares.
ParamsMix == ("a" :> <<Param("other", "x"), Param("param", "y"), Param("param", "z")>>)
                 @@ ("b" :> <<Param("param", "b")>>)
fParamMix == File("paramMix", Meta("", NameT, <<"a", "b">>, <<>>, ParamsMix),
                  ParamData @@ ("none" :> <<GetParam("missing", "dflt")>>))

\* Partials that include partials: outer.txt includes inner.txt; loopA and
\* loopB include each other; self includes itself.
fNested == File("nested", Meta("task", <<>>, <<>>, <<>>, <<>>),
                ("config" :> <<Partial("outer.txt", 4, <<>>)>>))
fCycleAB == File("cycleAB", Meta("", NameT, <<"a", "b">>, <<>>, <<>>),
                 ("config" :> <<Partial("loopA", 2, <<>>)>>))
fCycleSelf == File("cycleSelf", Meta("task", <<>>, <<>>, <<>>, <<>>),
                   ("config" :> <<Lit("x"), Partial("self", 0, <<>>)>>))

\* The files a category directory is drawn from under SpecLoad.
LoadFiles ==
    {fSingle, fInst, fInstBA, fP1, fP2P1, fNameless, fDataName, fDataNameInst,
     fNotYml, fDangling, fUnreadable, fNoMarker, fMarkerFirst, fBadHeader,
     fBadTemplate, fBadYaml, fPartial, fPartialArgs, fPartialOdd, fPartialInst,
     fNested, fCycleAB, fCycleSelf, fParamMix}

\* The files the four category directories are drawn from under Spec.
CatFiles == {fSingle, fBadTemplate}

\* The partials folder: task.yml of three lines, a, the nested pair
\* outer.txt and inner.txt, the cycle loopA and loopB, and self.
PartialsDir ==
    ("task.yml" :> << <<Lit("run:")>>,
                      <<Lit("path: "), Inst>>,
                      <<Lit("key: "), Arg("some-key")>> >>)
    @@ ("a" :> << <<Lit("for-a")>> >>)
    @@ ("outer.txt" :> << <<Lit("value:")>>, <<Include("inner.txt")>> >>)
    @@ ("inner.txt" :> << <<Lit("INNER")>> >>)
    @@ ("loopA" :> << <<Lit("a:")>>, <<Include("loopB")>> >>)
    @@ ("loopB" :> << <<Include("loopA")>>, <<Lit("b")>> >>)
    @@ ("self" :> << <<Include("self")>> >>)

Pipelines == {"", "p1"}

Cats == {"resources", "jobs", "resource_types", "groups"}

\* The category SpecLoad walks.
LoadCat == "jobs"

RECURSIVE SeqsUpTo(_, _)
\* The sequences over S of length at most n.
SeqsUpTo(S, n) ==
    IF n = 0 THEN {<<>>}
    ELSE LET shorter == SeqsUpTo(S, n - 1)
         IN  shorter \cup {Append(q, x) : q \in shorter, x \in S}

\* A category directory: its root exists (with files), is missing, or cannot
\* be read.
Dir(root, files) == [root |-> root, files |-> files]
DirsOver(S, n) ==
    {Dir("ok", fs) : fs \in SeqsUpTo(S, n)}
        \cup {Dir("missing", <<>>), Dir("ioerr", <<>>)}

-----------------------------------------------------------------------------
(* State                                                                    *)

VARIABLES
    hData,            \* findHeader: the bytes it is called with
    hRes,             \* findHeader: what the call returned
    hPc,              \* findHeader: "idle", "call" or "done"
    selectedPipeline, \* the --pipeline value
    wantWorldGroup,   \* the --worldgroup flag
    partialsErr,      \* whether loadPartials fails
    partials,         \* the partial registry loadPartials built
    dirs,             \* the directory of each category
    lpc,              \* each loader's position
    widx,             \* each loader's walk position: 0 the root, k the k-th file
    iidx,             \* each loader's position in AllInstances of its file
    resources,        \* each loadResources call's local slice
    lres,             \* what each loadResources call returned
    renderLog,        \* the generateInstance calls each loader made, in order
    ctxDone,          \* cancelContext is cancelled
    errChan,          \* the buffered error channel
    sent,             \* every error ever sent on errChan, in order
    err,              \* buildPipeline's err variable
    errWrites,        \* how often the collector assigned err
    p,                \* the Pipeline under construction
    cpc,              \* the collector's position
    cgot,             \* the error the collector's select received
    mpc,              \* main's position in buildPipeline
    ret,              \* what buildPipeline returned
    crashed           \* a goroutine panicked: the process is gone

headerVars == <<hData, hRes, hPc>>
inputVars == <<selectedPipeline, wantWorldGroup, partialsErr, partials, dirs>>
loaderVars == <<lpc, widx, iidx, resources, lres, renderLog>>
asmVars == <<ctxDone, errChan, sent, err, errWrites, p, cpc, cgot, mpc, ret>>
vars == <<headerVars, inputVars, loaderVars, asmVars, crashed>>

NoResult == [kind |-> "none", header |-> <<>>]
NoReturn == [resources |-> <<>>, err |-> NIL]
EmptyPipeline ==
    [Groups |-> <<>>, ResourceTypes |-> <<>>, Resources |-> <<>>, Jobs |-> <<>>]
NoRet == [doc |-> "none", pipeline |-> EmptyPipeline, err |-> NIL]

HeaderIdle == hData = <<>> /\ hRes = NoResult /\ hPc = "idle"

LoadersInit(pc) ==
    /\ lpc = [c \in Cats |-> pc[c]]
    /\ widx = [c \in Cats |-> 0]
    /\ iidx = [c \in Cats |-> 0]
    /\ resources = [c \in Cats |-> <<>>]
    /\ lres = [c \in Cats |-> NoReturn]
    /\ renderLog = [c \in Cats |-> <<>>]

AsmInit(m) ==
    /\ ctxDone = FALSE
    /\ errChan = <<>>
    /\ sent = <<>>
    /\ err = NIL
    /\ errWrites = 0
    /\ p = EmptyPipeline
    /\ cpc = "idle"
    /\ cgot = NIL
    /\ mpc = m
    /\ ret = NoRet

-----------------------------------------------------------------------------
(* SpecHeader: findHeader on byte sequences                                 *)

HeaderChunks ==
    {Marker, <<"d", "a", "t", "a", ":">>, <<"m">>, <<"\n">>, <<"x">>}

RECURSIVE ChunkSeqs(_)
\* The concatenations of at most n chunks.
ChunkSeqs(n) ==
    IF n = 0 THEN {<<>>}
    ELSE LET shorter == ChunkSeqs(n - 1)
         IN  shorter \cup {q \o ch : q \in shorter, ch \in HeaderChunks}

InitHeader ==
    /\ hData \in ChunkSeqs(MaxChunks)
    /\ hRes = NoResult
    /\ hPc = "call"
    /\ selectedPipeline = ""
    /\ wantWorldGroup = FALSE
    /\ partialsErr = FALSE
    /\ partials = <<>>
    /\ dirs = [c \in Cats |-> Dir("ok", <<>>)]
    /\ LoadersInit([c \in Cats |-> "idle"])
    /\ AsmInit("idle")
    /\ crashed = FALSE

\* header, err := findHeader(data)
FindHeaderCall ==
    /\ hPc = "call"
    /\ hRes' = findHeader(hData)
    /\ hPc' = "done"
    /\ UNCHANGED <<hData, inputVars, loaderVars, asmVars, crashed>>

NextHeader == FindHeaderCall

SpecHeader == InitHeader /\ [][NextHeader]_vars

-----------------------------------------------------------------------------
(* Category loader: loadResources, one step per walk callback stage         *)

ErrCanceled == "context canceled"
ErrLstat == "lstat: no such file or directory"
ErrOpen == "open: no such file or directory"
ErrPerm == "permission denied"

\* os.IsNotExist
IsNotExist(e) == e \in {ErrLstat, ErrOpen}

\* The tail of loadResources: what it returns once filepath.Walk returned e
\* with the local slice res.
ReturnOf(res, e) ==
    IF e # NIL /\ ~IsNotExist(e)
    THEN [resources |-> <<>>, err |-> "failed to process paths: " \o e]
    ELSE [resources |-> res, err |-> NIL]

CurFile(c) == dirs[c].files[widx[c]]

\* filepath.Walk returned e: loadResources returns.
Return(c, e, res) ==
    /\ lres' = [lres EXCEPT ![c] = ReturnOf(res, e)]
    /\ lpc' = [lpc EXCEPT ![c] = "returned"]
    /\ UNCHANGED widx

\* The callback returned nil: Walk goes on to the next file, or returns nil
\* after the last one.
Advance(c, res) ==
    IF widx[c] = Len(dirs[c].files)
    THEN Return(c, NIL, res)
    ELSE /\ widx' = [widx EXCEPT ![c] = @ + 1]
         /\ lpc' = [lpc EXCEPT ![c] = "walk"]
         /\ UNCHANGED lres

\* A callback with no cancellation check.
VisitUnchecked(c) ==
    /\ ~crashed
    /\ lpc[c] = "walk"
    /\ IF widx[c] = 0 /\ dirs[c].root # "ok"
       THEN Return(c, IF dirs[c].root = "missing" THEN ErrLstat ELSE ErrPerm,
                   resources[c])
       ELSE IF widx[c] = 0 \/ ~CurFile(c).yml
       THEN Advance(c, resources[c])
       ELSE /\ lpc' = [lpc EXCEPT ![c] = "read"]
            /\ UNCHANGED <<widx, lres>>
    /\ UNCHANGED <<iidx, resources, renderLog, crashed>>
    /\ UNCHANGED <<headerVars, inputVars, asmVars>>

\* The callback's entry: the walk error, the cancellation check, the suffix
\* check.  Walk calls it for the root first, then for each file.
Visit(c) ==
    /\ ~crashed
    /\ lpc[c] = "walk"
    /\ IF widx[c] = 0 /\ dirs[c].root # "ok"
       THEN Return(c, IF dirs[c].root = "missing" THEN ErrLstat ELSE ErrPerm,
                   resources[c])
       ELSE IF ctxDone
       THEN Return(c, ErrCanceled, resources[c])
       ELSE IF widx[c] = 0 \/ ~CurFile(c).yml
       THEN Advance(c, resources[c])
       ELSE /\ lpc' = [lpc EXCEPT ![c] = "read"]
            /\ UNCHANGED <<widx, lres>>
    /\ UNCHANGED <<iidx, resources, renderLog, crashed>>
    /\ UNCHANGED <<headerVars, inputVars, asmVars>>

\* The callback's middle: ReadFile, parseHeader, isRelevantForPipeline.
Read(c) ==
    /\ ~crashed
    /\ lpc[c] = "read"
    /\ LET f == CurFile(c)
           h == findHeader(f.raw)
       IN  IF f.read # "ok"
           THEN /\ Return(c, IF f.read = "notexist" THEN ErrOpen ELSE ErrPerm,
                          resources[c])
                /\ UNCHANGED <<iidx, crashed>>
           ELSE IF h.kind = "panic"
           THEN /\ crashed' = TRUE
                /\ UNCHANGED <<lpc, widx, lres, iidx>>
           ELSE IF h.kind = "err"
           THEN /\ Return(c, "failed to parse header: could not find header",
                          resources[c])
                /\ UNCHANGED <<iidx, crashed>>
           ELSE IF ~f.headerYaml
           THEN /\ Return(c, "failed to parse header: yaml", resources[c])
                /\ UNCHANGED <<iidx, crashed>>
           ELSE IF \/ ~isRelevantForPipeline(f.meta, selectedPipeline)
                   \/ Len(AllInstances(f.meta)) = 0
           THEN /\ Advance(c, resources[c])
                /\ UNCHANGED <<iidx, crashed>>
           ELSE /\ lpc' = [lpc EXCEPT ![c] = "render"]
                /\ iidx' = [iidx EXCEPT ![c] = 1]
                /\ UNCHANGED <<widx, lres, crashed>>
    /\ UNCHANGED <<resources, renderLog>>
    /\ UNCHANGED <<headerVars, inputVars, asmVars>>

\* One iteration of the instance loop: generateInstance, convertToResource,
\* append.
Render(c) ==
    /\ ~crashed
    /\ lpc[c] = "render"
    /\ LET f == CurFile(c)
           all == AllInstances(f.meta)
           instance == all[iidx[c]]
           g == generateInstance(f, instance, selectedPipeline, partials)
           r == IF g.err = NIL
                THEN convertToResource(g.rc, Singleton(f.meta)) ELSE <<>>
           res == Append(resources[c], r)
       IN  /\ renderLog' = [renderLog EXCEPT ![c] = Append(@,
                  [file |-> widx[c], k |-> iidx[c], instance |-> instance,
                   params |-> g.params, singleton |-> Singleton(f.meta),
                   cancelled |-> ctxDone, err |-> g.err, meta |-> g.rc.Meta,
                   res |-> r])]
           /\ IF g.err # NIL
              THEN /\ Return(c, "failed to generate instance " \o instance
                                   \o ": " \o g.err, resources[c])
                   /\ UNCHANGED <<resources, iidx>>
              ELSE /\ resources' = [resources EXCEPT ![c] = res]
                   /\ IF iidx[c] = Len(all)
                      THEN Advance(c, res) /\ UNCHANGED iidx
                      ELSE /\ iidx' = [iidx EXCEPT ![c] = @ + 1]
                           /\ UNCHANGED <<lpc, widx, lres>>
    /\ UNCHANGED crashed
    /\ UNCHANGED <<headerVars, inputVars, asmVars>>

-----------------------------------------------------------------------------
(* SpecLoad: one loadResources call, and a caller that may cancel ctx       *)

InitLoad ==
    /\ HeaderIdle
    /\ selectedPipeline \in Pipelines
    /\ wantWorldGroup = FALSE
    /\ partialsErr = FALSE
    /\ partials = PartialsDir
    /\ \E d \in DirsOver(LoadFiles, MaxFiles) :
           dirs = [c \in Cats |-> IF c = LoadCat THEN d ELSE Dir("ok", <<>>)]
    /\ LoadersInit([c \in Cats |-> IF c = LoadCat THEN "walk" ELSE "idle"])
    /\ AsmInit("idle")
    /\ crashed = FALSE

\* The caller cancels the context handed to loadResources.
CallerCancel ==
    /\ ~crashed
    /\ ~ctxDone
    /\ lpc[LoadCat] # "returned"
    /\ ctxDone' = TRUE
    /\ UNCHANGED <<errChan, sent, err, errWrites, p, cpc, cgot, mpc, ret>>
    /\ UNCHANGED <<headerVars, inputVars, loaderVars, crashed>>

NextLoad ==
    \/ Visit(LoadCat)
    \/ Read(LoadCat)
    \/ Render(LoadCat)
    \/ CallerCancel

SpecLoad == InitLoad /\ [][NextLoad]_vars

-----------------------------------------------------------------------------
(* Pipeline assembler: buildPipeline                                        *)

\* The --worldgroup-name default.
WorldGroupName == "WORLD"

\* The Pipeline field each loader goroutine assigns.
Field(c) ==
    CASE c = "resources" -> "Resources"
      [] c = "jobs" -> "Jobs"
      [] c = "resource_types" -> "ResourceTypes"
      [] c = "groups" -> "Groups"

\* The variable each loader goroutine tests after loadResources returned:
\* the jobs and resource_types goroutines test their own e, the resources and
\* groups goroutines test buildPipeline's err.
TestsOwnError(c) == c \in {"jobs", "resource_types"}

\* What a goroutine may read from err while the collector may write it with
\* no synchronisation in between: the old value or the new one.
ErrReads == IF errWrites > 0 THEN {NIL, err} ELSE {err}

\* generateWorldGroup
generateWorldGroup(name, pl) ==
    [k \in {"name", "jobs", "resources"} |->
        CASE k = "name" -> name
          [] k = "jobs" -> [i \in 1..Len(pl.Jobs) |-> pl.Jobs[i]["name"]]
          [] k = "resources" ->
                [i \in 1..Len(pl.Resources) |-> pl.Resources[i]["name"]]]

RECURSIVE FilesIn(_, _)
\* The size of the directories of the categories in S: their files, and one
\* for a root that is missing.
FilesIn(ds, S) ==
    IF S = {} THEN 0
    ELSE LET c == CHOOSE x \in S : TRUE
         IN  Len(ds[c].files) + (IF ds[c].root = "ok" THEN 0 ELSE 1)
                 + FilesIn(ds, S \ {c})

Init ==
    /\ HeaderIdle
    /\ selectedPipeline = ""
    /\ wantWorldGroup \in BOOLEAN
    /\ partialsErr \in BOOLEAN
    /\ partials = <<>>
    /\ dirs \in {ds \in [Cats -> DirsOver(CatFiles, MaxTotalFiles)
                                     \ {Dir("ioerr", <<>>)}] :
                    FilesIn(ds, Cats) <= MaxTotalFiles}
    /\ LoadersInit([c \in Cats |-> "idle"])
    /\ AsmInit("start")
    /\ crashed = FALSE

\* partials, err := loadPartials(folder), then the wait groups, the context,
\* the channel and the five go statements.
MainStart ==
    /\ ~crashed
    /\ mpc = "start"
    /\ IF partialsErr
       THEN /\ ret' = [doc |-> "nil", pipeline |-> EmptyPipeline,
                       err |-> "could not parse partial templates"]
            /\ mpc' = "returned"
            /\ UNCHANGED <<partials, lpc, cpc>>
       ELSE /\ partials' = PartialsDir
            /\ lpc' = [c \in Cats |-> "walk"]
            /\ cpc' = "run"
            /\ mpc' = "wait"
            /\ UNCHANGED ret
    /\ UNCHANGED <<selectedPipeline, wantWorldGroup, partialsErr, dirs>>
    /\ UNCHANGED <<widx, iidx, resources, lres, renderLog>>
    /\ UNCHANGED <<ctxDone, errChan, sent, err, errWrites, p, cgot>>
    /\ UNCHANGED <<headerVars, crashed>>

\* The collector evaluates its select: it takes a ready case, either one when
\* both are ready, and parks when none is.
CollectorSelect ==
    /\ ~crashed
    /\ cpc = "run"
    /\ \/ /\ ctxDone
          /\ cpc' = "done"
          /\ UNCHANGED <<errChan, cgot>>
       \/ /\ errChan # <<>>
          /\ cgot' = Head(errChan)
          /\ errChan' = Tail(errChan)
          /\ cpc' = "got"
       \/ /\ ~ctxDone
          /\ errChan = <<>>
          /\ cpc' = "parked"
          /\ UNCHANGED <<errChan, cgot>>
    /\ UNCHANGED <<ctxDone, sent, err, errWrites, p, mpc, ret>>
    /\ UNCHANGED <<headerVars, inputVars, loaderVars, crashed>>

\* A collector whose errChan case has no return: it records, cancels and
\* goes round its loop again.
CollectorRecordAndLoop ==
    /\ ~crashed
    /\ cpc = "got"
    /\ err' = cgot
    /\ errWrites' = errWrites + 1
    /\ ctxDone' = TRUE
    /\ cpc' = "run"
    /\ UNCHANGED <<errChan, sent, p, cgot, mpc, ret>>
    /\ UNCHANGED <<headerVars, inputVars, loaderVars, crashed>>

\* case e := <-errChan: err = e; cancel(); return
CollectorRecord ==
    /\ ~crashed
    /\ cpc = "got"
    /\ err' = cgot
    /\ errWrites' = errWrites + 1
    /\ ctxDone' = TRUE
    /\ cpc' = "done"
    /\ UNCHANGED <<errChan, sent, p, cgot, mpc, ret>>
    /\ UNCHANGED <<headerVars, inputVars, loaderVars, crashed>>

\* case <-cancelContext.Done(): return, for a collector that was parked when
\* the context was cancelled.
CollectorWake ==
    /\ ~crashed
    /\ cpc = "woken"
    /\ cpc' = "done"
    /\ UNCHANGED <<ctxDone, errChan, sent, err, errWrites, p, cgot, mpc, ret>>
    /\ UNCHANGED <<headerVars, inputVars, loaderVars, crashed>>

\* errChan <- e: a parked collector is handed the value, otherwise it is
\* buffered.
Send(e) ==
    /\ Len(errChan) < ErrChanCap
    /\ sent' = Append(sent, e)
    /\ IF cpc = "parked"
       THEN cgot' = e /\ cpc' = "got" /\ UNCHANGED errChan
       ELSE errChan' = Append(errChan, e) /\ UNCHANGED <<cgot, cpc>>

\* The rest of a loader goroutine once its loadResources call returned: the
\* error test, then the send or the assignment, then wg.Done.
GoFinish(c) ==
    /\ ~crashed
    /\ lpc[c] = "returned"
    /\ mpc = "wait"
    /\ \E seen \in (IF TestsOwnError(c) THEN {lres[c].err} ELSE ErrReads) :
          IF seen # NIL
          THEN IF lres[c].err = NIL
               THEN \* e.Error() on a nil error
                    /\ crashed' = TRUE
                    /\ UNCHANGED <<lpc, errChan, sent, cgot, cpc, p>>
               ELSE /\ Send("failed to load " \o c \o ": " \o lres[c].err)
                    /\ lpc' = [lpc EXCEPT ![c] = "done"]
                    /\ UNCHANGED <<p, crashed>>
          ELSE /\ p' = [p EXCEPT ![Field(c)] = lres[c].resources]
               /\ lpc' = [lpc EXCEPT ![c] = "done"]
               /\ UNCHANGED <<errChan, sent, cgot, cpc, crashed>>
    /\ UNCHANGED <<widx, iidx, resources, lres, renderLog>>
    /\ UNCHANGED <<ctxDone, err, errWrites, mpc, ret>>
    /\ UNCHANGED <<headerVars, inputVars>>

\* wg.Wait(); cancel()
MainJoin ==
    /\ ~crashed
    /\ mpc = "wait"
    /\ \A c \in Cats : lpc[c] = "done"
    /\ ctxDone' = TRUE
    /\ cpc' = IF cpc = "parked" THEN "woken" ELSE cpc
    /\ mpc' = "errorWait"
    /\ UNCHANGED <<errChan, sent, err, errWrites, p, cgot, ret>>
    /\ UNCHANGED <<headerVars, inputVars, loaderVars, crashed>>

\* errorWg.Wait(); the world group; return &p, err
MainReturn ==
    /\ ~crashed
    /\ mpc = "errorWait"
    /\ cpc = "done"
    /\ p' = IF wantWorldGroup
            THEN [p EXCEPT !.Groups =
                     <<generateWorldGroup(WorldGroupName, p)>> \o p.Groups]
            ELSE p
    /\ ret' = [doc |-> "pipeline", pipeline |-> p', err |-> err]
    /\ mpc' = "returned"
    /\ UNCHANGED <<ctxDone, errChan, sent, err, errWrites, cpc, cgot>>
    /\ UNCHANGED <<headerVars, inputVars, loaderVars, crashed>>

Next ==
    \/ MainStart
    \/ \E c \in Cats : Visit(c)
    \/ \E c \in Cats : Read(c)
    \/ \E c \in Cats : Render(c)
    \/ \E c \in Cats : GoFinish(c)
    \/ CollectorSelect
    \/ CollectorRecord
    \/ CollectorWake
    \/ MainJoin
    \/ MainReturn

Spec == Init /\ [][Next]_vars

-----------------------------------------------------------------------------
(* Properties                                                               *)

\* The files of category c, and the generateInstance calls made for its
\* i-th file.
Files(c) == dirs[c].files
CallsFor(c, i) == {j \in 1..Len(renderLog[c]) : renderLog[c][j].file = i}

\* C1: once buildPipeline has returned, if a loader sent an error on errChan
\* then the returned error is non-nil.
C1_SentErrorIsReturned ==
    (mpc = "returned" /\ Len(sent) > 0) => ret.err # NIL

\* C2: for each of the four categories, a loader whose loadResources call
\* returned an error has sent its error on errChan by the time it is done,
\* and buildPipeline then returns an error.
C2_EveryLoaderReports ==
    \A c \in Cats :
        (lpc[c] = "done" /\ lres[c].err # NIL) =>
            /\ \E i \in 1..Len(sent) :
                   sent[i] = "failed to load " \o c \o ": " \o lres[c].err
            /\ mpc = "returned" => ret.err # NIL

\* C3: when buildPipeline returns an error it hands over no Document holding
\* entries: neither loader results nor a synthesized world group.
C3_NoDocumentWithError ==
    (mpc = "returned" /\ ret.err # NIL) =>
        \/ ret.doc = "nil"
        \/ /\ ret.pipeline.Groups = <<>>
           /\ ret.pipeline.ResourceTypes = <<>>
           /\ ret.pipeline.Resources = <<>>
           /\ ret.pipeline.Jobs = <<>>

\* The effective instance list as the metadata model is documented: the
\* instances, or the name alone when there are none.
DeclaredInstances(m) == IF m.Instances = <<>> THEN <<m.Name>> ELSE m.Instances

\* The parameter sequence the header declares for an instance.
DeclaredParams(m, instance) ==
    IF instance \in DOMAIN m.Params THEN m.Params[instance] ELSE <<>>

\* The applicability rule as documented.
AppliesTo(m, pipeline) ==
    IF m.Pipelines = <<>>
    THEN pipeline = ""
    ELSE pipeline \in {m.Pipelines[i] : i \in 1..Len(m.Pipelines)}

\* The i-th file of c was walked past: its callback returned nil.
Passed(c, i) == i >= 1 /\ i < widx[c]

\* The generateInstance calls of c follow file order and, within a file,
\* instance order, one call per declared instance with that instance's own
\* parameters, and the local slice holds one entry per successful call.
OrderAndParams(c) ==
    LET log == renderLog[c]
    IN  /\ \A j \in 1..Len(log) :
              LET r == log[j]
                  m == Files(c)[r.file].meta
              IN  /\ r.k \in 1..Len(DeclaredInstances(m))
                  /\ r.instance = DeclaredInstances(m)[r.k]
                  /\ r.params = DeclaredParams(m, r.instance)
                  /\ j > 1 =>
                        \/ log[j - 1].file < r.file /\ r.k = 1
                        \/ log[j - 1].file = r.file /\ r.k = log[j - 1].k + 1
        /\ \A i \in 1..Len(Files(c)) :
              (Passed(c, i) /\ CallsFor(c, i) # {}) =>
                  Cardinality(CallsFor(c, i))
                      = Len(DeclaredInstances(Files(c)[i].meta))
        /\ Len(resources[c]) = Cardinality({j \in 1..Len(log) : log[j].err = NIL})
        /\ \A j \in 1..Len(resources[c]) : resources[c][j] = log[j].res

\* C4 (without its last clause): one entry per declared instance, in
\* instance order within a file and file order across files, each rendered
\* with its own parameters.
C4_OrderAndParams == \A c \in Cats : OrderAndParams(c)

\* C4: for a relevant file the loader appends one entry per element of
\* allInstances(meta), in declaration order, each rendered with its own
\* parameter sequence, the entries of different files in file order; and a
\* template with no instances and name N yields exactly one entry, named N.
C4_OneEntryPerInstance ==
    \A c \in Cats :
        /\ OrderAndParams(c)
        /\ \A i \in 1..Len(Files(c)) :
              LET m == Files(c)[i].meta
              IN  (Passed(c, i) /\ CallsFor(c, i) # {} /\ m.Instances = <<>>) =>
                      /\ Cardinality(CallsFor(c, i)) = 1
                      /\ \A j \in CallsFor(c, i) :
                            renderLog[c][j].res["name"] = m.Name

\* C5: every appended entry is named by the rendered meta.name when the
\* template is a singleton and by the rendered meta.name_template otherwise,
\* whatever keys its data section has.
C5_NameComesFromMeta ==
    \A c \in Cats : \A j \in 1..Len(renderLog[c]) :
        LET r == renderLog[c][j]
        IN  r.err = NIL =>
                /\ "name" \in DOMAIN r.res
                /\ r.res["name"] = IF r.singleton THEN r.meta.Name
                                   ELSE r.meta.NameTemplate

\* What every call of the instance loop shows of AllInstances: the loop
\* iterates the instances when there are some and the name alone when there
\* are none, and every file walked past that was rendered got all its calls.
InstancesAsDeclared(c) ==
    /\ \A j \in 1..Len(renderLog[c]) :
          LET r == renderLog[c][j]
              m == Files(c)[r.file].meta
          IN  /\ r.singleton => (r.k = 1 /\ r.instance = m.Name)
              /\ ~r.singleton => (r.k <= Len(m.Instances)
                                    /\ r.instance = m.Instances[r.k])
    /\ \A i \in 1..Len(Files(c)) :
          LET f == Files(c)[i]
          IN  (Passed(c, i) /\ f.yml /\ AppliesTo(f.meta, selectedPipeline)) =>
                  Cardinality(CallsFor(c, i)) = Len(DeclaredInstances(f.meta))

\* C6 as claimed: singleton mode is exactly "no instances and a non-empty
\* name"; a singleton iterates its name alone, other templates their
\* instances unchanged.
C6_SingletonNeedsName ==
    \A c \in Cats :
        /\ InstancesAsDeclared(c)
        /\ \A j \in 1..Len(renderLog[c]) :
              LET r == renderLog[c][j]
                  m == Files(c)[r.file].meta
              IN  r.singleton <=> (m.Instances = <<>> /\ m.Name # "")

\* C6 as amended: singleton mode is exactly "no instances", whatever the
\* name (an empty name included); a singleton iterates its name alone, other
\* templates their instances unchanged.
C6_SingletonIffNoInstances ==
    \A c \in Cats :
        /\ InstancesAsDeclared(c)
        /\ \A j \in 1..Len(renderLog[c]) :
              LET r == renderLog[c][j]
                  m == Files(c)[r.file].meta
              IN  r.singleton <=> (m.Instances = <<>>)

\* C6 witness: the loader has rendered a template with no instances and an
\* empty name as a singleton, and an instanced template to its last instance.
C6_Witness ==
    /\ \E j \in 1..Len(renderLog[LoadCat]) :
          LET r == renderLog[LoadCat][j]
          IN  r.singleton /\ r.instance = "" /\ r.err = NIL
    /\ \E j \in 1..Len(renderLog[LoadCat]) :
          LET r == renderLog[LoadCat][j]
          IN  ~r.singleton /\ r.k = 2 /\ r.err = NIL
    /\ lpc[LoadCat] = "returned"

\* The marker starts at 0-based offset i of data.
MarkerAt(data, i) ==
    /\ i + Len(Marker) <= Len(data)
    /\ \A j \in 1..Len(Marker) : data[i + j] = Marker[j]

\* C7: findHeader fails when the input holds no marker, and otherwise returns
\* exactly the bytes before the first marker (none when the marker is at
\* offset 0).
C7_HeaderIsBytesBeforeMarker ==
    hPc = "done" =>
        IF \A i \in 0..Len(hData) : ~MarkerAt(hData, i)
        THEN hRes.kind = "err"
        ELSE \E i \in 0..Len(hData) :
                /\ MarkerAt(hData, i)
                /\ \A j \in 0..(i - 1) : ~MarkerAt(hData, j)
                /\ hRes.kind = "ok"
                /\ hRes.header = SubSeq(hData, 1, i)

\* The header of the i-th file of c can be read and parsed.
HeaderParses(f) ==
    /\ f.read = "ok"
    /\ f.headerYaml
    /\ \E i \in 1..Len(f.raw) : MarkerAt(f.raw, i)

\* C8: a file is rendered if and only if it applies to the selected pipeline
\* (no pipelines: only the empty selection; otherwise: membership); a file
\* that does not apply is never rendered, adds no entry and causes no render
\* or result-parse error.
C8_RenderedIffRelevant ==
    \A c \in Cats :
        /\ \A j \in 1..Len(renderLog[c]) :
              AppliesTo(Files(c)[renderLog[c][j].file].meta, selectedPipeline)
        /\ \A i \in 1..Len(Files(c)) :
              LET f == Files(c)[i]
              IN  /\ (Passed(c, i) /\ f.yml /\ AppliesTo(f.meta, selectedPipeline))
                         => CallsFor(c, i) # {}
                  /\ (lpc[c] = "render" /\ widx[c] = i)
                         => AppliesTo(f.meta, selectedPipeline)
                  /\ (/\ lpc[c] = "returned" /\ widx[c] = i
                      /\ f.yml /\ HeaderParses(f)
                      /\ ~AppliesTo(f.meta, selectedPipeline))
                         => lres[c].err \in
                                {NIL, "failed to process paths: " \o ErrCanceled}
        /\ Len(resources[c])
               = Cardinality({j \in 1..Len(renderLog[c]) :
                                 renderLog[c][j].err = NIL})

\* C8 witness: with pipeline p1 selected the loader has walked past a file
\* without pipelines, which it did not render, and has rendered a file whose
\* pipelines list holds p1 as its second element.
C8_Witness ==
    /\ selectedPipeline = "p1"
    /\ lpc[LoadCat] = "returned"
    /\ Len(Files(LoadCat)) = 2
    /\ Files(LoadCat)[1].meta.Pipelines = <<>>
    /\ Files(LoadCat)[1].yml
    /\ Files(LoadCat)[2].meta.Pipelines = <<"p2", "p1">>
    /\ CallsFor(LoadCat, 1) = {}
    /\ CallsFor(LoadCat, 2) # {}
    /\ Len(lres[LoadCat].resources) = 1

\* The i-th file of c makes its callback fail when it is reached: it cannot
\* be read, its header cannot be parsed, or it applies and cannot be rendered.
FileFails(c, i) ==
    LET f == Files(c)[i]
    IN  /\ f.yml
        /\ \/ ~HeaderParses(f)
           \/ /\ AppliesTo(f.meta, selectedPipeline)
              /\ \E j \in CallsFor(c, i) : renderLog[c][j].err # NIL

\* C9: loadResources returns no error only when the category root is missing
\* (with no entries) or when no file it reached failed; in every other case
\* it returns an error and no entries.
C9_OnlyMissingRootIsSwallowed ==
    \A c \in Cats :
        lpc[c] = "returned" =>
            /\ dirs[c].root = "missing" =>
                   lres[c] = [resources |-> <<>>, err |-> NIL]
            /\ dirs[c].root = "ioerr" => lres[c].err # NIL
            /\ (dirs[c].root = "ok" /\ lres[c].err = NIL) =>
                   /\ widx[c] = Len(Files(c))
                   /\ \A i \in 1..Len(Files(c)) : ~FileFails(c, i)
            /\ lres[c].err # NIL => lres[c].resources = <<>>

\* The Args mapping that trailing key/value arguments stand for.
KwArgs(kw) ==
    [k \in {kw[i] : i \in {x \in 1..Len(kw) : x % 2 = 1 /\ x < Len(kw)}} |->
        kw[(CHOOSE i \in 1..Len(kw) : i % 2 = 1 /\ kw[i] = k) + 1]]

\* C10: a partial call with trailing key/value arguments renders the named
\* partial with the caller's context whose Args is the mapping of those
\* arguments; a call with an odd number of trailing arguments is a render
\* error of the instance.
C10_PartialKeywordArgs ==
    \A c \in Cats : \A j \in 1..Len(renderLog[c]) :
        LET r == renderLog[c][j]
            f == Files(c)[r.file]
        IN  \A key \in DOMAIN f.data :
                LET tok == f.data[key][1]
                    context == [Instance |-> r.instance, Params |-> r.params,
                                Pipeline |-> selectedPipeline,
                                Args |-> KwArgs(tok.kw)]
                    x == ExecuteTemplate(partials, tok.a, context)
                IN  (Len(f.data[key]) = 1 /\ tok.t = "partial" /\ ~x.err) =>
                        IF Len(tok.kw) % 2 = 1
                        THEN r.err = "failed to render template"
                        ELSE /\ r.err = NIL
                             /\ r.res[key] = indent(x.lines, tok.n)

\* The partials a partial names in its template actions, and the partials
\* reachable from a set of partials over such references.
IncludesOf(ps, n) ==
    {ps[n][i][1].a :
        i \in {k \in 1..Len(ps[n]) : Len(ps[n][k]) = 1 /\ ps[n][k][1].t = "template"}}

RECURSIVE ReachableFrom(_, _)
ReachableFrom(ps, S) ==
    LET T == S \cup UNION {IncludesOf(ps, n) : n \in S \cap DOMAIN ps}
    IN  IF T = S THEN S ELSE ReachableFrom(ps, T)

OnCycle(ps, n) == n \in DOMAIN ps /\ n \in ReachableFrom(ps, IncludesOf(ps, n))
LeadsToCycle(ps, n) == \E m \in ReachableFrom(ps, {n}) : OnCycle(ps, m)

\* The partials the root template of f calls when rendered for instance.
PartialsCalled(f, instance) ==
    {IF f.data[key][i].t = "partial" THEN f.data[key][i].a ELSE instance :
        <<key, i>> \in {x \in (DOMAIN f.data) \X (1..3) :
                           /\ x[2] <= Len(f.data[x[1]])
                           /\ f.data[x[1]][x[2]].t \in {"partial", "partialInst"}}}

\* C11: rendering an instance whose template calls a partial that lies on,
\* or leads to, a cycle of partial references (A includes B and B includes A,
\* or A includes A) ends: it is a render error of that instance, no entry is
\* appended for it and the loader returns an error.
C11_CyclicPartialFails ==
    \A c \in Cats : \A j \in 1..Len(renderLog[c]) :
        LET r == renderLog[c][j]
            f == Files(c)[r.file]
        IN  (\E n \in PartialsCalled(f, r.instance) : LeadsToCycle(partials, n)) =>
                /\ r.err = "failed to render template"
                /\ r.res = <<>>
                /\ j = Len(renderLog[c])
                /\ lpc[c] = "returned"
                /\ lres[c].err # NIL
                /\ lres[c].resources = <<>>

\* A partial that includes another one with no cycle has rendered, spliced
\* and indented, and then an instance whose partial lies on a cycle has
\* failed to render.
C11_Witness ==
    /\ Len(renderLog[LoadCat]) = 2
    /\ LET r == renderLog[LoadCat][1]
           f == Files(LoadCat)[r.file]
       IN  /\ \E n \in PartialsCalled(f, r.instance) :
                   IncludesOf(partials, n) # {} /\ ~LeadsToCycle(partials, n)
           /\ r.err = NIL
           /\ r.res["config"] = "value:\n    INNER"
    /\ LET r == renderLog[LoadCat][2]
           f == Files(LoadCat)[r.file]
       IN  /\ \E n \in PartialsCalled(f, r.instance) : OnCycle(partials, n)
           /\ r.err = "failed to render template"
           /\ lres[LoadCat].err # NIL

\* The positions of the parameters of that name in a params list.
Matches(ps, name) == {i \in 1..Len(ps) : ps[i].Name = name}

\* C12: in a rendered instance, getParam name default is the value of the
\* first parameter of that name among the parameters the meta section
\* declares for this very instance, and default when this instance declares
\* none of that name or has no params entry at all.
C12_GetParamFirstMatch ==
    \A c \in Cats : \A j \in 1..Len(renderLog[c]) :
        LET r == renderLog[c][j]
            f == Files(c)[r.file]
            ps == DeclaredParams(f.meta, r.instance)
        IN  r.err = NIL =>
                \A key \in DOMAIN f.data :
                    LET tok == f.data[key][1]
                        hits == Matches(ps, tok.a)
                    IN  (Len(f.data[key]) = 1 /\ tok.t = "getParam") =>
                            r.res[key] =
                                IF hits = {} THEN tok.b
                                ELSE ps[CHOOSE i \in hits : \A k \in hits : i <= k].Value

\* Both instances of a file were rendered: the one with no params entry got
\* the default, the other the first of its two parameters of the same name.
C12_Witness ==
    \E j \in 1..Len(renderLog[LoadCat]) : \E k \in 1..Len(renderLog[LoadCat]) :
        LET r == renderLog[LoadCat][j]
            q == renderLog[LoadCat][k]
            f == Files(LoadCat)[r.file]
        IN  /\ r.file = q.file
            /\ r.instance \notin DOMAIN f.meta.Params
            /\ q.instance \in DOMAIN f.meta.Params
            /\ Cardinality(Matches(f.meta.Params[q.instance], "param")) = 2
            /\ f.data["param"] = <<GetParam("param", "<nil>")>>
            /\ r.err = NIL /\ r.res["param"] = "<nil>"
            /\ q.err = NIL /\ q.res["param"] = "first"

\* C13: first error wins.  The recorded error err is written at most once;
\* the step that writes it is the collector's, writes the first error sent
\* on errChan, cancels the context and ends the collector; once written, err
\* never changes, whatever is sent later, and the collector stays ended.
C13_FirstErrorWins ==
    /\ [](errWrites <= 1)
    /\ [](errWrites = 1 => sent # <<>> /\ err = sent[1] /\ ctxDone /\ cpc = "done")
    /\ [][/\ err' # err =>
                /\ cpc = "got" /\ errWrites = 0 /\ errWrites' = 1
                /\ err' = cgot /\ ctxDone' /\ cpc' = "done"
          /\ errWrites >= 1 => err' = err /\ cpc' = "done"]_vars

\* Two loaders sent an error: the collector recorded the first and ended, the
\* second stays in the channel and buildPipeline returned the first.
C13_Witness ==
    /\ Len(sent) = 2
    /\ sent[1] # sent[2]
    /\ errWrites = 1
    /\ err = sent[1]
    /\ errChan = <<sent[2]>>
    /\ cpc = "done"
    /\ mpc = "returned"
    /\ ret.err = sent[1]

\* What loadResources returns when a callback's check saw the context
\* cancelled.
CancelledReturn ==
    [resources |-> <<>>, err |-> "failed to process paths: " \o ErrCanceled]

\* C14: a loader looks at the cancellation signal only in the check made on
\* entering the callback for a walked path.  A callback whose check sees the
\* signal set ends the loader with the cancellation error; reading a file
\* starts only from a check that saw the signal clear; between that check and
\* the end of the file's instance loop the loader never ends with the
\* cancellation error, and it leaves the loop only after the last declared
\* instance or on an instance's own error.
C14_CancellationOnlyAtFileCheck ==
    [][\A c \in Cats :
          /\ (/\ lpc[c] = "walk"
               /\ ctxDone
               /\ ~(widx[c] = 0 /\ dirs[c].root # "ok")
               /\ <<lpc[c], widx[c]>> # <<lpc'[c], widx'[c]>>)
                  => lpc'[c] = "returned" /\ lres'[c] = CancelledReturn
          /\ (lpc[c] = "walk" /\ lpc'[c] = "read") => ~ctxDone
          /\ (lpc[c] \in {"read", "render"}) => lres'[c] # CancelledReturn
          /\ (lpc[c] = "render" /\ <<lpc[c], iidx[c]>> # <<lpc'[c], iidx'[c]>>) =>
                  /\ Len(renderLog'[c]) = Len(renderLog[c]) + 1
                  /\ LET r == renderLog'[c][Len(renderLog'[c])]
                         n == Len(DeclaredInstances(Files(c)[widx[c]].meta))
                     IN  /\ r.file = widx[c] /\ r.k = iidx[c]
                         /\ IF r.err # NIL THEN lpc'[c] = "returned"
                            ELSE IF r.k < n
                            THEN lpc'[c] = "render" /\ iidx'[c] = iidx[c] + 1
                            ELSE lpc'[c] # "render"]_vars

\* The context was cancelled while a file's instances were being rendered:
\* the remaining instance was rendered all the same, and the check for the
\* next file ended the loader with the cancellation error.
C14_Witness ==
    /\ lpc[LoadCat] = "returned"
    /\ lres[LoadCat] = CancelledReturn
    /\ widx[LoadCat] = 2
    /\ Len(renderLog[LoadCat]) = 2
    /\ LET r == renderLog[LoadCat]
       IN  /\ r[1].file = 1 /\ r[2].file = 1
           /\ ~r[1].cancelled /\ r[2].cancelled
           /\ r[1].err = NIL /\ r[2].err = NIL
           /\ Len(resources[LoadCat]) = 2

\* C15: buildPipeline always gets to its return.  As long as it has not
\* returned some task can take a step; a loader that is about to send finds
\* room in errChan, which never holds more than one error per loader; and
\* when buildPipeline returns after starting its tasks, the four loaders and
\* the collector have ended.
C15_AlwaysReturns ==
    /\ mpc = "returned" \/ ENABLED Next
    /\ Len(sent) <= Cardinality(Cats)
    /\ (\E c \in Cats : lpc[c] # "done") => Len(errChan) < ErrChanCap
    /\ (mpc = "returned" /\ ret.doc # "nil") =>
            /\ \A c \in Cats : lpc[c] = "done"
            /\ cpc = "done"

\* C16: the tasks share no mutable variable.  What a loader task does once
\* its loadResources call returned is decided by that call's own result and
\* by nothing another task wrote: with no error it assigns its result to its
\* own Document field and sends nothing, with an error it sends that error
\* and assigns nothing, and it never stops the run.  A Document field changes
\* only in the step of its own loader, or in main's after the join; and main
\* returns the Document and the recorded error only after the four loaders
\* and the collector have ended.
C16_TasksShareNoVariable ==
    [][/\ \A c \in Cats :
             /\ (lpc[c] = "returned" /\ lpc'[c] = "done") =>
                    IF lres[c].err = NIL
                    THEN /\ p' = [p EXCEPT ![Field(c)] = lres[c].resources]
                         /\ sent' = sent
                    ELSE /\ p' = p
                         /\ sent' = Append(sent, "failed to load " \o c \o ": "
                                                    \o lres[c].err)
             /\ p'[Field(c)] # p[Field(c)] =>
                    \/ lpc[c] = "returned" /\ lpc'[c] = "done"
                    \/ mpc = "errorWait" /\ mpc' = "returned"
       /\ (~crashed /\ crashed') => \E c \in Cats : lpc[c] = "read"
       /\ (mpc # "returned" /\ mpc' = "returned" /\ ret'.doc # "nil") =>
              /\ \A c \in Cats : lpc[c] = "done"
              /\ cpc = "done"
              /\ ret'.err = err]_vars

RECURSIVE InstancesInOrder(_, _, _, _)
\* The entries of the instances k.. of file f rendered one after the other,
\* up to the first that fails.
InstancesInOrder(f, k, pipeline, ps) ==
    LET all == DeclaredInstances(f.meta)
    IN  IF k > Len(all) THEN [err |-> FALSE, resources |-> <<>>]
        ELSE LET g == generateInstance(f, all[k], pipeline, ps)
                 rest == InstancesInOrder(f, k + 1, pipeline, ps)
             IN  IF g.err # NIL \/ rest.err
                 THEN [err |-> TRUE, resources |-> <<>>]
                 ELSE [err |-> FALSE,
                       resources |-> <<convertToResource(g.rc, f.meta.Instances = <<>>)>>
                                         \o rest.resources]

RECURSIVE FilesInOrder(_, _, _)
\* The entries of a sequence of files loaded one after the other with no
\* cancellation, up to the first file that fails.
FilesInOrder(files, pipeline, ps) ==
    IF files = <<>> THEN [err |-> FALSE, resources |-> <<>>]
    ELSE LET f == Head(files)
             rest == FilesInOrder(Tail(files), pipeline, ps)
             own == IF ~f.yml THEN [err |-> FALSE, resources |-> <<>>]
                    ELSE IF ~HeaderParses(f) THEN [err |-> TRUE, resources |-> <<>>]
                    ELSE IF ~AppliesTo(f.meta, pipeline)
                    THEN [err |-> FALSE, resources |-> <<>>]
                    ELSE InstancesInOrder(f, 1, pipeline, ps)
         IN  IF own.err \/ rest.err THEN [err |-> TRUE, resources |-> <<>>]
             ELSE [err |-> FALSE, resources |-> own.resources \o rest.resources]

\* What the inputs alone decide for category c: a missing root is an empty
\* category, an unreadable root an error.
Decided(c) ==
    IF dirs[c].root = "missing" THEN [err |-> FALSE, resources |-> <<>>]
    ELSE IF dirs[c].root # "ok" THEN [err |-> TRUE, resources |-> <<>>]
    ELSE FilesInOrder(dirs[c].files, selectedPipeline, PartialsDir)

\* C17: what buildPipeline returns is decided by its inputs, whatever the
\* interleaving of its tasks: it returns an error exactly when the partials
\* or some category fail on these inputs, and when it returns none the four
\* sequences of the Document are the entries of the four categories (the
\* groups after the world group, when one is wanted).
C17_OutcomeDecidedByInputs ==
    mpc = "returned" =>
        /\ ret.err # NIL <=> (partialsErr \/ \E c \in Cats : Decided(c).err)
        /\ ret.err = NIL =>
              /\ ret.pipeline.Resources = Decided("resources").resources
              /\ ret.pipeline.Jobs = Decided("jobs").resources
              /\ ret.pipeline.ResourceTypes = Decided("resource_types").resources
              /\ ret.pipeline.Groups =
                     (IF wantWorldGroup
                      THEN <<generateWorldGroup(WorldGroupName, ret.pipeline)>>
                      ELSE <<>>) \o Decided("groups").resources

\* C18: no loader goroutine calls e.Error() on a nil e.  The run stops on a
\* panic only where a loader is reading a file whose header cannot be
\* sliced; a goroutine whose loadResources call returned never stops it,
\* also when the collector has recorded another category's failure.
C18_ErrorCalledOnNonNil ==
    [][(~crashed /\ crashed') =>
          \E c \in Cats : /\ lpc[c] = "read"
                          /\ findHeader(CurFile(c).raw).kind = "panic"]_vars

=============================================================================
